---- MODULE Spec2Model ----
(***************************************************************************)
(* Model of ambivo_agents/services/factory.py: the AgentFactory (static    *)
(* construction of agents gated by capability flags) and the ProxyAgent    *)
(* (a registry of agents and keyword routing of messages to them); of      *)
(* ambivo_agents/agents/workflow_developer.py: the staged conversation of  *)
(* the WorkflowDeveloperAgent; and of TwoAgentConversation.run in          *)
(* examples/workflow_stateless_example.py.                                 *)
(***************************************************************************)
EXTENDS Integers, Sequences, FiniteSets, TLC

VARIABLES
    fcall,          \* the AgentFactory call in progress / just finished
    heap,           \* the dict objects: the ProxyAgent's agent_registry and a caller's copy
    held,           \* the dict a caller obtained from get_registered_agents
    last,           \* the most recent registry operation and what it returned
    calls,          \* the process_message calls: position, message, target, response
    dev,            \* the WorkflowDeveloperAgent: conversation_stage, requirements, last reply
    conv            \* the TwoAgentConversation.run call: position, locals, messages

factoryVars == <<fcall>>
proxyVars == <<heap, held, last, calls>>
exampleVars == <<dev, conv>>
vars == <<fcall, heap, held, last, calls, dev, conv>>

None == "None"

\* The largest registry (and caller-held copy) explored.
MaxRegistry == 3

(***************************************************************************)
(* AgentFactory                                                            *)
(***************************************************************************)

\* AgentRole members the factory handles, and one it does not (ANALYST).
AgentRoles == {"ASSISTANT", "CODE_EXECUTOR", "RESEARCHER", "PROXY", "ANALYST"}

\* Capability names read by the factory.
CapKeys == {"knowledge_base", "web_search", "youtube_download", "web_scraping", "media_editor"}

\* Every mapping from a subset of the capability names to booleans: the
\* dict returned by validate_agent_capabilities(config); a key may be absent.
CapabilityMappings == UNION {[D -> BOOLEAN] : D \in SUBSET CapKeys}

\* dict.get(key, default)
Get(d, key, default) == IF key \in DOMAIN d THEN d[key] ELSE default

\* Type names accepted by create_specialized_agent, and two it does not know.
AgentTypes == {"knowledge_base", "web_scraper", "web_search", "media_editor",
               "youtube_download", "moderator", "code_executor", "web_scraping"}

SpecializedClasses == {"KnowledgeBaseAgent", "WebSearchAgent", "YouTubeDownloadAgent",
                       "WebScraperAgent", "MediaEditorAgent"}

FactoryClasses == SpecializedClasses \cup
                  {"AssistantAgent", "CodeExecutorAgent", "ProxyAgent", "ModeratorAgent"}

\* The capability flag that gates each specialized class.
FlagOf(cls) ==
    CASE cls = "KnowledgeBaseAgent"   -> "knowledge_base"
      [] cls = "WebSearchAgent"       -> "web_search"
      [] cls = "YouTubeDownloadAgent" -> "youtube_download"
      [] cls = "WebScraperAgent"      -> "web_scraping"
      [] cls = "MediaEditorAgent"     -> "media_editor"

\* The sets of classes whose import or constructor raises during one call
\* (the agent modules are external: a missing dependency makes them raise).
CtorFailures == {{}} \cup {{c} : c \in FactoryClasses}
                \cup {{c, "AssistantAgent"} : c \in SpecializedClasses}

\* A finished factory call: what it returned or raised, and the classes
\* whose constructor it invoked, in order.
Returned(cls, attempted) ==
    [outcome |-> "returned", cls |-> cls, error |-> None, attempted |-> attempted]

Raised(error, attempted) ==
    [outcome |-> "raised", cls |-> None, error |-> error, attempted |-> attempted]

\* Mutant: every constructor call guarded by a fallback to the AssistantAgent.
Construct_Substitute(cls, failing, attempted) ==
    IF cls \in failing
    THEN Returned("AssistantAgent", attempted \o <<cls, "AssistantAgent">>)
    ELSE Returned(cls, Append(attempted, cls))

\* "return Cls(...)" outside any try: the constructor's exception propagates.
Construct(cls, failing, attempted) ==
    IF cls \in failing
    THEN Raised("constructor raised: " \o cls, Append(attempted, cls))
    ELSE Returned(cls, Append(attempted, cls))

\* Mutant: the web_search test placed before the knowledge_base test.
ResearcherBranch_SearchFirst(capabilities) ==
    IF Get(capabilities, "web_search", FALSE) THEN "WebSearchAgent"
    ELSE IF Get(capabilities, "knowledge_base", FALSE) THEN "KnowledgeBaseAgent"
    ELSE IF Get(capabilities, "youtube_download", FALSE) THEN "YouTubeDownloadAgent"
    ELSE IF Get(capabilities, "web_scraping", FALSE) THEN "WebScraperAgent"
    ELSE IF Get(capabilities, "media_editor", FALSE) THEN "MediaEditorAgent"
    ELSE None

\* The branch of the RESEARCHER if/elif chain taken for a capability mapping.
ResearcherBranch(capabilities) ==
    IF Get(capabilities, "knowledge_base", FALSE) THEN "KnowledgeBaseAgent"
    ELSE IF Get(capabilities, "web_search", FALSE) THEN "WebSearchAgent"
    ELSE IF Get(capabilities, "youtube_download", FALSE) THEN "YouTubeDownloadAgent"
    ELSE IF Get(capabilities, "web_scraping", FALSE) THEN "WebScraperAgent"
    ELSE IF Get(capabilities, "media_editor", FALSE) THEN "MediaEditorAgent"
    ELSE None

\* Mutant: when the branch's constructor raises, the remaining capabilities
\* are tried in priority order before the AssistantAgent.
create_researcher_TryNext(capabilities, failing) ==
    LET order == <<"KnowledgeBaseAgent", "WebSearchAgent", "YouTubeDownloadAgent",
                   "WebScraperAgent", "MediaEditorAgent">>
        enabled == SelectSeq(order, LAMBDA cls : Get(capabilities, FlagOf(cls), FALSE))
        ok == {i \in DOMAIN enabled : enabled[i] \notin failing} IN
    IF ok = {}
    THEN Construct("AssistantAgent", failing, enabled)
    ELSE LET k == CHOOSE i \in ok : \A j \in ok : i <= j IN
         Returned(enabled[k], SubSeq(enabled, 1, k))

\* Mutant: a final "else" that builds a MediaEditorAgent without testing its flag.
create_researcher_Unchecked(capabilities, failing) ==
    LET branch == ResearcherBranch(capabilities) IN
    IF branch = None
    THEN Construct("MediaEditorAgent", failing, <<>>)
    ELSE IF branch \notin failing
         THEN Returned(branch, <<branch>>)
         ELSE Construct("AssistantAgent", failing, <<branch>>)

\* RESEARCHER role: the branch's constructor runs inside try/except; when it
\* raises the error is logged and control falls to the AssistantAgent fallback.
create_researcher(capabilities, failing) ==
    LET branch == ResearcherBranch(capabilities) IN
    IF branch = None
    THEN Construct("AssistantAgent", failing, <<>>)
    ELSE IF branch \notin failing
         THEN Returned(branch, <<branch>>)
         ELSE Construct("AssistantAgent", failing, <<branch>>)

\* Mutant: an unknown role falls back to the AssistantAgent instead of raising.
create_agent_Fallback(role, capabilities, failing) ==
    IF role = "CODE_EXECUTOR" THEN Construct("CodeExecutorAgent", failing, <<>>)
    ELSE IF role = "RESEARCHER" THEN create_researcher(capabilities, failing)
    ELSE IF role = "PROXY" THEN Construct("ProxyAgent", failing, <<>>)
    ELSE Construct("AssistantAgent", failing, <<>>)

create_agent(role, capabilities, failing) ==
    IF role = "ASSISTANT" THEN Construct("AssistantAgent", failing, <<>>)
    ELSE IF role = "CODE_EXECUTOR" THEN Construct("CodeExecutorAgent", failing, <<>>)
    ELSE IF role = "RESEARCHER" THEN create_researcher(capabilities, failing)
    ELSE IF role = "PROXY" THEN Construct("ProxyAgent", failing, <<>>)
    ELSE Raised("Unsupported agent role: " \o role, <<>>)

\* Mutant: the guard tests key presence only (""flag" in capabilities").
Guarded_KeyPresent(flag, message, cls, capabilities, failing) ==
    IF flag \notin DOMAIN capabilities
    THEN Raised(message, <<>>)
    ELSE Construct(cls, failing, <<>>)

\* One guarded branch of create_specialized_agent.
Guarded(flag, message, cls, capabilities, failing) ==
    IF ~Get(capabilities, flag, FALSE)
    THEN Raised(message, <<>>)
    ELSE Construct(cls, failing, <<>>)

create_specialized_agent(agent_type, capabilities, failing) ==
    IF agent_type = "knowledge_base"
    THEN Guarded("knowledge_base", "Knowledge base not enabled in agent_config.yaml",
                 "KnowledgeBaseAgent", capabilities, failing)
    ELSE IF agent_type = "web_scraper"
    THEN Guarded("web_scraping", "Web scraping not enabled in agent_config.yaml",
                 "WebScraperAgent", capabilities, failing)
    ELSE IF agent_type = "web_search"
    THEN Guarded("web_search", "Web search not enabled in agent_config.yaml",
                 "WebSearchAgent", capabilities, failing)
    ELSE IF agent_type = "media_editor"
    THEN Guarded("media_editor", "Media editor not enabled in agent_config.yaml",
                 "MediaEditorAgent", capabilities, failing)
    ELSE IF agent_type = "youtube_download"
    THEN Guarded("youtube_download", "YouTube download not enabled in agent_config.yaml",
                 "YouTubeDownloadAgent", capabilities, failing)
    ELSE IF agent_type = "moderator"
    THEN Construct("ModeratorAgent", failing, <<>>)
    ELSE Raised("Unknown or unavailable agent type: " \o agent_type, <<>>)

NoCall == [op |-> None]

FactoryInit == fcall = NoCall

\* A caller invokes AgentFactory.create_agent(role, ..., config).
CreateAgent ==
    /\ fcall = NoCall
    /\ \E role \in AgentRoles, capabilities \in CapabilityMappings, failing \in CtorFailures :
         fcall' = [op |-> "create_agent", arg |-> role, capabilities |-> capabilities,
                   failing |-> failing,
                   result |-> create_agent(role, capabilities, failing)]
    /\ UNCHANGED <<proxyVars, dev, conv>>

\* A caller invokes AgentFactory.create_specialized_agent(agent_type, ..., config).
CreateSpecializedAgent ==
    /\ fcall = NoCall
    /\ \E agent_type \in AgentTypes, capabilities \in CapabilityMappings,
          failing \in CtorFailures :
         fcall' = [op |-> "create_specialized_agent", arg |-> agent_type,
                   capabilities |-> capabilities, failing |-> failing,
                   result |-> create_specialized_agent(agent_type, capabilities, failing)]
    /\ UNCHANGED <<proxyVars, dev, conv>>

\* The caller takes the result; the factory keeps no state between calls.
FactoryDone ==
    /\ fcall # NoCall
    /\ fcall' = NoCall
    /\ UNCHANGED <<proxyVars, dev, conv>>

FactoryNext == CreateAgent \/ CreateSpecializedAgent \/ FactoryDone

(***************************************************************************)
(* Properties of the AgentFactory                                          *)
(***************************************************************************)

\* The capability flag the documentation pairs with each specialized type name.
TypeFlag == [knowledge_base |-> "knowledge_base", web_scraper |-> "web_scraping",
             web_search |-> "web_search", media_editor |-> "media_editor",
             youtube_download |-> "youtube_download"]

\* The configuration error naming each type's missing capability.
ConfigError == [knowledge_base |-> "Knowledge base not enabled in agent_config.yaml",
                web_scraper |-> "Web scraping not enabled in agent_config.yaml",
                web_search |-> "Web search not enabled in agent_config.yaml",
                media_editor |-> "Media editor not enabled in agent_config.yaml",
                youtube_download |-> "YouTube download not enabled in agent_config.yaml"]

FlagOff(capabilities, flag) == flag \notin DOMAIN capabilities \/ capabilities[flag] = FALSE

\* C1: create_specialized_agent with one of the five specialized type names
\* raises a configuration error, returns no instance and constructs nothing
\* (no fallback) whenever that type's capability flag is false or absent.
C1_StrictPrecondition ==
    (/\ fcall.op = "create_specialized_agent"
     /\ fcall.arg \in DOMAIN TypeFlag
     /\ FlagOff(fcall.capabilities, TypeFlag[fcall.arg]))
    => /\ fcall.result.outcome = "raised"
       /\ fcall.result.cls = None
       /\ fcall.result.attempted = <<>>
       /\ fcall.result.error = ConfigError[fcall.arg]

\* Witness C1: a web_scraper request whose mapping holds web_scraping = FALSE
\* next to other flags that are true, and one whose mapping lacks the key.
C1_Witness ==
    /\ fcall.op = "create_specialized_agent"
    /\ fcall.arg = "web_scraper"
    /\ "web_scraping" \in DOMAIN fcall.capabilities
    /\ fcall.capabilities["web_scraping"] = FALSE
    /\ Get(fcall.capabilities, "web_search", FALSE)
    /\ fcall.result.outcome = "raised"

\* C2: in no factory call is the constructor of a specialized agent type
\* invoked while the call's capability mapping has that type's flag false
\* or absent.
C2_NeverInstantiatedWithoutFlag ==
    fcall.op # None =>
        \A i \in DOMAIN fcall.result.attempted :
            LET cls == fcall.result.attempted[i] IN
            cls \in SpecializedClasses => ~FlagOff(fcall.capabilities, FlagOf(cls))

\* Witness C2: a RESEARCHER call that built a WebScraperAgent while the
\* higher-priority flags were off.
C2_Witness ==
    /\ fcall.op = "create_agent"
    /\ fcall.arg = "RESEARCHER"
    /\ fcall.result.attempted = <<"WebScraperAgent">>
    /\ FlagOff(fcall.capabilities, "knowledge_base")
    /\ FlagOff(fcall.capabilities, "media_editor")

\* The documented priority order of the researcher capabilities.
ResearcherPriority == <<"knowledge_base", "web_search", "youtube_download",
                        "web_scraping", "media_editor">>

ResearcherClass == <<"KnowledgeBaseAgent", "WebSearchAgent", "YouTubeDownloadAgent",
                     "WebScraperAgent", "MediaEditorAgent">>

\* The class of the highest-priority flag that is true, AssistantAgent when none is.
ExpectedResearcher(capabilities) ==
    LET on == {i \in 1..5 : ~FlagOff(capabilities, ResearcherPriority[i])} IN
    IF on = {} THEN "AssistantAgent"
    ELSE ResearcherClass[CHOOSE i \in on : \A j \in on : i <= j]

KnownRoles == {"ASSISTANT", "CODE_EXECUTOR", "RESEARCHER", "PROXY"}

KnownTypes == {"knowledge_base", "web_scraper", "web_search", "media_editor",
               "youtube_download", "moderator"}

\* C4: an unrecognized role given to create_agent, or an unrecognized type
\* name given to create_specialized_agent, raises whatever the capability
\* mapping; nothing is constructed and nothing is returned.
C4_UnsupportedRaises ==
    (\/ fcall.op = "create_agent" /\ fcall.arg \notin KnownRoles
     \/ fcall.op = "create_specialized_agent" /\ fcall.arg \notin KnownTypes)
    => /\ fcall.result.outcome = "raised"
       /\ fcall.result.cls = None
       /\ fcall.result.attempted = <<>>

\* Witness C4: the ANALYST role, with every capability enabled, raised.
C4_Witness ==
    /\ fcall.op = "create_agent"
    /\ fcall.arg = "ANALYST"
    /\ \A k \in CapKeys : Get(fcall.capabilities, k, FALSE)
    /\ fcall.result.outcome = "raised"
    /\ fcall.result.error = "Unsupported agent role: ANALYST"

(***************************************************************************)
(* ProxyAgent: the registry                                                *)
(***************************************************************************)

\* The objects a caller may pass to register_agent.  An agent instance has
\* an identity (its name here), an agent_id, a class and a role; "yt1_b" is
\* a second instance carrying the agent_id of "yt1"; "plain" is an object
\* without an agent_id attribute.
Obj ==
    [yt1    |-> [agent_id |-> "yt1", cls |-> "YouTubeDownloadAgent", role |-> "RESEARCHER"],
     yt1_b  |-> [agent_id |-> "yt1", cls |-> "AssistantAgent", role |-> "ASSISTANT"],
     ytkey  |-> [agent_id |-> "my_youtube_dl", cls |-> "CustomAgent", role |-> "RESEARCHER"],
     ws1    |-> [agent_id |-> "ws1", cls |-> "WebSearchAgent", role |-> "RESEARCHER"],
     kb1    |-> [agent_id |-> "knowledge_1", cls |-> "KnowledgeBaseAgent", role |-> "RESEARCHER"],
     me1    |-> [agent_id |-> "me1", cls |-> "MediaEditorAgent", role |-> "RESEARCHER"],
     ce1    |-> [agent_id |-> "ce1", cls |-> "CodeExecutorAgent", role |-> "CODE_EXECUTOR"],
     sc1    |-> [agent_id |-> "webscraper_1", cls |-> "WebScraperAgent", role |-> "RESEARCHER"],
     as1    |-> [agent_id |-> "as1", cls |-> "AssistantAgent", role |-> "ASSISTANT"],
     as2    |-> [agent_id |-> "as2", cls |-> "AssistantAgent", role |-> "ASSISTANT"],
     plain  |-> [cls |-> "object"]]

Instances == DOMAIN Obj

\* hasattr(agent, "agent_id")
HasAgentId(a) == "agent_id" \in DOMAIN Obj[a]

\* A Python dict: its items in insertion order, each <<key, value>>.
Keys(d) == {d[i][1] : i \in DOMAIN d}

\* d[key]
Lookup(d, key) == d[CHOOSE i \in DOMAIN d : d[i][1] = key][2]

\* d[key] = value: an existing key keeps its position, a new key goes last.
DictSet(d, key, value) ==
    IF key \in Keys(d)
    THEN [i \in DOMAIN d |-> IF d[i][1] = key THEN <<key, value>> ELSE d[i]]
    ELSE Append(d, <<key, value>>)

\* del d[key]
DictDel(d, key) == SelectSeq(d, LAMBDA item : item[1] # key)

\* self.agent_registry
agent_registry == heap["registry"]

\* Mutant: a second registration of an identifier is refused.
register_agent_KeepFirst(registry, agent) ==
    IF agent # None /\ HasAgentId(agent) /\ Obj[agent].agent_id \notin Keys(registry)
    THEN [ret |-> TRUE, registry |-> DictSet(registry, Obj[agent].agent_id, agent)]
    ELSE [ret |-> FALSE, registry |-> registry]

\* Mutant: the identifier is read without the hasattr test, None standing
\* for the missing one.
register_agent_NoAttrTest(registry, agent) ==
    IF agent # None
    THEN [ret |-> TRUE,
          registry |-> DictSet(registry,
                               IF HasAgentId(agent) THEN Obj[agent].agent_id ELSE None,
                               agent)]
    ELSE [ret |-> FALSE, registry |-> registry]

\* register_agent: the value returned and the registry afterwards.
register_agent(registry, agent) ==
    IF agent # None /\ HasAgentId(agent)
    THEN [ret |-> TRUE, registry |-> DictSet(registry, Obj[agent].agent_id, agent)]
    ELSE [ret |-> FALSE, registry |-> registry]

\* Mutant: "pop(agent_id, None)" followed by an unconditional "return True".
unregister_agent_AlwaysTrue(registry, agent_id) ==
    [ret |-> TRUE, registry |-> DictDel(registry, agent_id)]

\* unregister_agent: the value returned and the registry afterwards.
unregister_agent(registry, agent_id) ==
    IF agent_id \in Keys(registry)
    THEN [ret |-> TRUE, registry |-> DictDel(registry, agent_id)]
    ELSE [ret |-> FALSE, registry |-> registry]

\* Mutant: "return self.agent_registry", the dict itself.
get_registered_agents_Alias(h) == [ref |-> "registry", heap |-> h]

\* get_registered_agents: a new dict holding the registry's items.
get_registered_agents(h) ==
    [ref |-> "copy", heap |-> [h EXCEPT !["copy"] = h["registry"]]]

NoOp == [op |-> None]

NoCalls == [c \in {} |-> None]

ProxyInit ==
    /\ heap = [registry |-> <<>>, copy |-> <<>>]
    /\ held = None
    /\ last = NoOp
    /\ calls = NoCalls

\* proxy.register_agent(agent)
Register(agent) ==
    LET r == register_agent(agent_registry, agent) IN
    /\ Len(r.registry) <= MaxRegistry
    /\ heap' = [heap EXCEPT !["registry"] = r.registry]
    /\ last' = [op |-> "register_agent", arg |-> agent, ret |-> r.ret,
                before |-> agent_registry]
    /\ UNCHANGED <<held, calls, fcall, dev, conv>>

\* proxy.unregister_agent(agent_id)
Unregister(agent_id) ==
    LET r == unregister_agent(agent_registry, agent_id) IN
    /\ heap' = [heap EXCEPT !["registry"] = r.registry]
    /\ last' = [op |-> "unregister_agent", arg |-> agent_id, ret |-> r.ret,
                before |-> agent_registry]
    /\ UNCHANGED <<held, calls, fcall, dev, conv>>

\* d = proxy.get_registered_agents()
GetRegisteredAgents ==
    LET r == get_registered_agents(heap) IN
    /\ heap' = r.heap
    /\ held' = r.ref
    /\ last' = [op |-> "get_registered_agents", before |-> agent_registry]
    /\ UNCHANGED <<calls, fcall, dev, conv>>

\* The caller adds or replaces an entry of the dict it was given.
CallerSet(key, agent) ==
    /\ held # None
    /\ Len(DictSet(heap[held], key, agent)) <= MaxRegistry
    /\ heap' = [heap EXCEPT ![held] = DictSet(@, key, agent)]
    /\ last' = [op |-> "caller_set", arg |-> key, before |-> agent_registry]
    /\ UNCHANGED <<held, calls, fcall, dev, conv>>

\* The caller removes an entry of the dict it was given.
CallerDel(key) ==
    /\ held # None
    /\ key \in Keys(heap[held])
    /\ heap' = [heap EXCEPT ![held] = DictDel(@, key)]
    /\ last' = [op |-> "caller_del", arg |-> key, before |-> agent_registry]
    /\ UNCHANGED <<held, calls, fcall, dev, conv>>

\* The agents and identifiers used to exercise the registry operations.
RegistryInstances == {"yt1", "yt1_b", "as1", "plain", None}

RegistryIds == {"yt1", "as1", "ws1"}

RegistryNext ==
    \/ \E agent \in RegistryInstances : Register(agent)
    \/ \E agent_id \in RegistryIds : Unregister(agent_id)
    \/ GetRegisteredAgents
    \/ \E key \in RegistryIds, agent \in {"yt1", "yt1_b", "as1"} : CallerSet(key, agent)
    \/ \E key \in RegistryIds : CallerDel(key)

(***************************************************************************)
(* ProxyAgent: routing                                                     *)
(***************************************************************************)

\* "needle in haystack" for Python strings.
Contains(haystack, needle) ==
    \E i \in 1..(Len(haystack) - Len(needle) + 1) :
        SubSeq(haystack, i, i + Len(needle) - 1) = needle

UpperLetters == "ABCDEFGHIJKLMNOPQRSTUVWXYZ"
LowerLetters == "abcdefghijklmnopqrstuvwxyz"

LowerChar(ch) ==
    IF \E i \in 1..26 : SubSeq(UpperLetters, i, i) = ch
    THEN LET i == CHOOSE i \in 1..26 : SubSeq(UpperLetters, i, i) = ch
         IN SubSeq(LowerLetters, i, i)
    ELSE ch

RECURSIVE Lower(_)
\* str.lower()
Lower(str) ==
    IF Len(str) = 0 THEN ""
    ELSE LowerChar(SubSeq(str, 1, 1)) \o Lower(SubSeq(str, 2, Len(str)))

\* The keyword list of each branch of the if/elif chain, in order.  The
\* fenced-code keywords of branch 5 (three backquotes before "python" and
\* "bash") are left out: a content that holds one holds "python" or "bash".
RuleKeywords ==
    << {"youtube.com", "youtu.be", "download youtube", "youtube download",
        "download video", "download audio", "youtube mp3", "youtube mp4",
        "download from youtube"},
       {"search web", "web search", "find online", "search_web", "brave search",
        "aves search", "search the web", "search for"},
       {"ingest_document", "ingest_text", "ingest", "knowledge base", "kb",
        "query_knowledge_base", "query", "search documents", "vector database",
        "qdrant", "semantic search", "document", "pdf", "docx"},
       {"extract_audio", "convert_video", "media", "ffmpeg", "audio", "video",
        "mp4", "mp3", "wav", "extract audio", "resize video", "trim video",
        "video format", "audio format"},
       {"execute", "run code", "python", "bash", "script", "code execution"},
       {"scrape", "web scraping", "crawl", "extract from url", "scrape_url",
        "apartments.com", "scrape website"} >>

\* The condition of branch r on the lower-cased content.
MatchesRule(r, content) ==
    \/ \E keyword \in RuleKeywords[r] : Contains(content, keyword)
    \/ r = 1 /\ Contains(content, "youtube")

\* Mutant: the web-search branch tested before the YouTube branch.
RuleBranch_SearchFirst(content) ==
    IF MatchesRule(2, content) THEN 2
    ELSE IF MatchesRule(1, content) THEN 1
    ELSE IF MatchesRule(3, content) THEN 3
    ELSE IF MatchesRule(4, content) THEN 4
    ELSE IF MatchesRule(5, content) THEN 5
    ELSE IF MatchesRule(6, content) THEN 6
    ELSE 0

\* The branch of the if/elif chain entered (0: none).
RuleBranch(content) ==
    IF MatchesRule(1, content) THEN 1
    ELSE IF MatchesRule(2, content) THEN 2
    ELSE IF MatchesRule(3, content) THEN 3
    ELSE IF MatchesRule(4, content) THEN 4
    ELSE IF MatchesRule(5, content) THEN 5
    ELSE IF MatchesRule(6, content) THEN 6
    ELSE 0

\* Mutant: the YouTube branch looks the agent up by key only.
AgentMatches_KeyOnly(r, agent_key, agent) ==
    CASE r = 1 -> \/ Contains(agent_key, "youtube_download")
                  \/ Contains(agent_key, "youtube")
      [] r = 2 -> \/ Contains(Obj[agent].cls, "WebSearchAgent")
                  \/ Contains(agent_key, "web_search")
                  \/ Contains(agent_key, "websearch")
      [] r = 3 -> \/ Contains(Obj[agent].cls, "KnowledgeBaseAgent")
                  \/ Contains(agent_key, "knowledge_base")
                  \/ Contains(agent_key, "knowledge")
      [] r = 4 -> \/ Contains(Obj[agent].cls, "MediaEditorAgent")
                  \/ Contains(agent_key, "media_editor")
                  \/ Contains(agent_key, "mediaeditor")
      [] r = 5 -> Obj[agent].role = "CODE_EXECUTOR"
      [] r = 6 -> \/ Contains(Obj[agent].cls, "WebScraperAgent")
                  \/ Contains(agent_key, "web_scraper")
                  \/ Contains(agent_key, "webscraper")

\* The test branch r applies to a registry item in its lookup loop.
AgentMatches(r, agent_key, agent) ==
    CASE r = 1 -> \/ Contains(Obj[agent].cls, "YouTubeDownloadAgent")
                  \/ Contains(agent_key, "youtube_download")
                  \/ Contains(agent_key, "youtube")
      [] r = 2 -> \/ Contains(Obj[agent].cls, "WebSearchAgent")
                  \/ Contains(agent_key, "web_search")
                  \/ Contains(agent_key, "websearch")
      [] r = 3 -> \/ Contains(Obj[agent].cls, "KnowledgeBaseAgent")
                  \/ Contains(agent_key, "knowledge_base")
                  \/ Contains(agent_key, "knowledge")
      [] r = 4 -> \/ Contains(Obj[agent].cls, "MediaEditorAgent")
                  \/ Contains(agent_key, "media_editor")
                  \/ Contains(agent_key, "mediaeditor")
      [] r = 5 -> Obj[agent].role = "CODE_EXECUTOR"
      [] r = 6 -> \/ Contains(Obj[agent].cls, "WebScraperAgent")
                  \/ Contains(agent_key, "web_scraper")
                  \/ Contains(agent_key, "webscraper")

\* The message contents explored.
Contents ==
    {"please download https://youtube.com/watch?v=abc",
     "Search for YouTube.com clips",
     "search the web for a pdf",
     "query the audio",
     "convert video with python",
     "run code to crawl",
     "run this python script",
     "scrape this site",
     "hello there"}

\* content = message.content.lower() and the branch entered for it, for
\* every explored content (evaluated once).
BranchTable == [content \in Contents |-> RuleBranch(Lower(content))]

\* The registry keys that can occur.
AllKeys == {Obj[a].agent_id : a \in {i \in Instances : HasAgentId(i)}} \cup {None}

\* The lookup test of every branch on every possible registry item
\* (evaluated once).
MatchTable ==
    [r \in 1..6 |-> [agent_key \in AllKeys |->
        [agent \in {i \in Instances : "role" \in DOMAIN Obj[i]} |->
            AgentMatches(r, agent_key, agent)]]]

\* "for key, agent in registry.items(): if test: target = agent; break"
\* over the positions whose item passes the test.
FirstItem(registry, hits) ==
    IF hits = {} THEN None
    ELSE registry[CHOOSE i \in hits : \A j \in hits : i <= j][2]

\* Mutant: independent "if" statements in place of the elif chain, so that
\* a later matching rule is tried when an earlier one found no agent.
SelectSpecialized_FallThrough(content, registry) ==
    LET found == {r \in 1..6 :
                    /\ MatchesRule(r, Lower(content))
                    /\ \E i \in DOMAIN registry :
                           MatchTable[r][registry[i][1]][registry[i][2]]}
        r == IF found = {} THEN 0 ELSE CHOOSE x \in found : \A y \in found : x <= y IN
    IF r = 0 THEN None
    ELSE FirstItem(registry, {i \in DOMAIN registry :
                                 MatchTable[r][registry[i][1]][registry[i][2]]})

\* target_agent after the if/elif chain, for a message content.
SelectSpecialized(content, registry) ==
    LET r == BranchTable[content] IN
    IF r = 0 THEN None
    ELSE FirstItem(registry, {i \in DOMAIN registry :
                                 MatchTable[r][registry[i][1]][registry[i][2]]})

\* Mutant: the default step placed in a final "else" of the chain, so that
\* it runs only when no branch was entered.
SelectTarget_DefaultInElse(content, registry) ==
    IF BranchTable[content] = 0
    THEN FirstItem(registry, {i \in DOMAIN registry :
                                 Obj[registry[i][2]].role = "ASSISTANT"})
    ELSE SelectSpecialized(content, registry)

\* target_agent after the default step: the first ASSISTANT-role agent when
\* the chain chose none.
SelectTarget(content, registry) ==
    LET target_agent == SelectSpecialized(content, registry) IN
    IF target_agent = None
    THEN FirstItem(registry, {i \in DOMAIN registry :
                                 Obj[registry[i][2]].role = "ASSISTANT"})
    ELSE target_agent

\* The ProxyAgent's own agent_id.
ProxyId == "proxy"

\* The inbound message with a given content.
Message(content) ==
    [content |-> content, sender_id |-> "user1", session_id |-> "s1",
     conversation_id |-> "conv1"]

\* Mutant: the enumeration built from the ASSISTANT-role agents only.
MissResponse_AssistantsOnly(message, registry) ==
    [type |-> "error",
     content |-> <<"I couldn't find an appropriate agent to handle your request. Available agents: ",
                   SelectSeq([i \in DOMAIN registry |->
                                 <<Obj[registry[i][2]].cls, registry[i][1]>>],
                             LAMBDA x : x[1] = "AssistantAgent")>>,
     recipient_id |-> message.sender_id, session_id |-> message.session_id,
     conversation_id |-> message.conversation_id, metadata |-> None]

\* The response of the routing-miss branch: create_response(...) with the
\* list of "Class (agent_id)" for every registry item.
MissResponse(message, registry) ==
    [type |-> "error",
     content |-> <<"I couldn't find an appropriate agent to handle your request. Available agents: ",
                   [i \in DOMAIN registry |-> <<Obj[registry[i][2]].cls, registry[i][1]>>]>>,
     recipient_id |-> message.sender_id, session_id |-> message.session_id,
     conversation_id |-> message.conversation_id, metadata |-> None]

\* Mutant: the except branch answering with a fixed text.
RoutingErrorResponse_Generic(message, exception) ==
    [type |-> "error", content |-> <<"Routing error: ", "internal error">>,
     recipient_id |-> message.sender_id, session_id |-> message.session_id,
     conversation_id |-> message.conversation_id, metadata |-> None]

\* The response of the except branch.
RoutingErrorResponse(message, exception) ==
    [type |-> "error", content |-> <<"Routing error: ", exception>>,
     recipient_id |-> message.sender_id, session_id |-> message.session_id,
     conversation_id |-> message.conversation_id, metadata |-> None]

\* Mutant: routed_to filled with the class name of the target.
RoutedResponse_ClassAsId(message, target_agent) ==
    [type |-> "agent_output", content |-> <<"reply of ", target_agent>>,
     recipient_id |-> message.sender_id, session_id |-> message.session_id,
     conversation_id |-> message.conversation_id,
     metadata |-> [routed_by |-> ProxyId,
                   routed_to |-> Obj[target_agent].cls,
                   routed_to_class |-> Obj[target_agent].cls,
                   routing_reason |-> "Content matched " \o Obj[target_agent].cls
                                      \o " patterns"]]

\* The target's response after response.metadata.update({...}).
RoutedResponse(message, target_agent) ==
    [type |-> "agent_output", content |-> <<"reply of ", target_agent>>,
     recipient_id |-> message.sender_id, session_id |-> message.session_id,
     conversation_id |-> message.conversation_id,
     metadata |-> [routed_by |-> ProxyId,
                   routed_to |-> Obj[target_agent].agent_id,
                   routed_to_class |-> Obj[target_agent].cls,
                   routing_reason |-> "Content matched " \o Obj[target_agent].cls
                                      \o " patterns"]]

\* The texts of the exceptions an agent raises that derive from Exception.
AgentExceptions == {"connection refused", "quota exceeded"}

\* Exceptions that do not derive from Exception (asyncio.CancelledError when
\* the caller cancels or times out the call, KeyboardInterrupt).
BaseExceptions == {"CancelledError"}

\* Mutant: the target is given the message with the lower-cased content
\* that the rules are matched on.
ProcessMessageStart_ForwardLowered(c, content, store_ok) ==
    LET message == Message(content)
        target_agent == SelectTarget(content, agent_registry) IN
    /\ c \notin DOMAIN calls
    /\ calls' = (c :>
         IF ~store_ok
         THEN [pc |-> "raised", message |-> message, target |-> None,
               trace |-> <<"store">>, invoked |-> <<>>, forwarded |-> None,
               exception |-> "store_message failed"]
         ELSE IF target_agent # None
         THEN [pc |-> "awaiting", message |-> message, target |-> target_agent,
               trace |-> <<"store", "forward">>, invoked |-> <<target_agent>>,
               forwarded |-> Message(Lower(content))]
         ELSE [pc |-> "done", message |-> message, target |-> None,
               trace |-> <<"store">>, invoked |-> <<>>, forwarded |-> None,
               response |-> MissResponse(message, agent_registry)]) @@ calls
    /\ last' = NoOp
    /\ UNCHANGED <<heap, held, fcall, dev, conv>>

\* Mutant: routing that remembers earlier messages, sending a message past
\* an agent that already serves one to the next registered agent of that role.
ProcessMessageStart_Spread(c, content, store_ok) ==
    LET message == Message(content)
        chosen == SelectTarget(content, agent_registry)
        busy == {calls[d].target : d \in DOMAIN calls}
        free == {i \in DOMAIN agent_registry :
                    /\ chosen # None
                    /\ Obj[agent_registry[i][2]].role = Obj[chosen].role
                    /\ agent_registry[i][2] \notin busy}
        target_agent == IF chosen \in busy /\ free # {}
                        THEN FirstItem(agent_registry, free)
                        ELSE chosen IN
    /\ c \notin DOMAIN calls
    /\ calls' = (c :>
         IF ~store_ok
         THEN [pc |-> "raised", message |-> message, target |-> None,
               trace |-> <<"store">>, invoked |-> <<>>, forwarded |-> None,
               exception |-> "store_message failed"]
         ELSE IF target_agent # None
         THEN [pc |-> "awaiting", message |-> message, target |-> target_agent,
               trace |-> <<"store", "forward">>, invoked |-> <<target_agent>>,
               forwarded |-> message]
         ELSE [pc |-> "done", message |-> message, target |-> None,
               trace |-> <<"store">>, invoked |-> <<>>, forwarded |-> None,
               response |-> MissResponse(message, agent_registry)]) @@ calls
    /\ last' = NoOp
    /\ UNCHANGED <<heap, held, fcall, dev, conv>>

\* Mutant: a yield point between the routing decision and the dispatch, at
\* which an unregister_agent call of another task removes the chosen agent.
ProcessMessageStart_Yield(c, content, store_ok) ==
    LET message == Message(content)
        target_agent == SelectTarget(content, agent_registry) IN
    /\ c \notin DOMAIN calls
    /\ calls' = (c :>
         IF ~store_ok
         THEN [pc |-> "raised", message |-> message, target |-> None,
               trace |-> <<"store">>, invoked |-> <<>>, forwarded |-> None,
               exception |-> "store_message failed"]
         ELSE IF target_agent # None
         THEN [pc |-> "awaiting", message |-> message, target |-> target_agent,
               trace |-> <<"store", "forward">>, invoked |-> <<target_agent>>,
               forwarded |-> message]
         ELSE [pc |-> "done", message |-> message, target |-> None,
               trace |-> <<"store">>, invoked |-> <<>>, forwarded |-> None,
               response |-> MissResponse(message, agent_registry)]) @@ calls
    /\ last' = NoOp
    /\ heap' = IF store_ok /\ target_agent # None
               THEN [heap EXCEPT !["registry"] =
                       DictDel(agent_registry, Obj[target_agent].agent_id)]
               ELSE heap
    /\ UNCHANGED <<held, fcall, dev, conv>>

\* Mutant: the message is stored in the branch that dispatches only.
ProcessMessageStart_StoreOnDispatch(c, content, store_ok) ==
    LET message == Message(content)
        target_agent == SelectTarget(content, agent_registry) IN
    /\ c \notin DOMAIN calls
    /\ calls' = (c :>
         IF target_agent # None /\ ~store_ok
         THEN [pc |-> "raised", message |-> message, target |-> None,
               trace |-> <<"store">>, invoked |-> <<>>, forwarded |-> None,
               exception |-> "store_message failed"]
         ELSE IF target_agent # None
         THEN [pc |-> "awaiting", message |-> message, target |-> target_agent,
               trace |-> <<"store", "forward">>, invoked |-> <<target_agent>>,
               forwarded |-> message]
         ELSE [pc |-> "done", message |-> message, target |-> None,
               trace |-> <<>>, invoked |-> <<>>, forwarded |-> None,
               response |-> MissResponse(message, agent_registry)]) @@ calls
    /\ last' = NoOp
    /\ UNCHANGED <<heap, held, fcall, dev, conv>>

\* process_message up to its await: the message is stored (outside the try:
\* an exception of store_message leaves the coroutine), the target is
\* chosen, and either the target's process_message is entered with the
\* inbound message or the routing-miss response is returned.
ProcessMessageStart(c, content, store_ok) ==
    LET message == Message(content)
        target_agent == SelectTarget(content, agent_registry) IN
    /\ c \notin DOMAIN calls
    /\ calls' = (c :>
         IF ~store_ok
         THEN [pc |-> "raised", message |-> message, target |-> None,
               trace |-> <<"store">>, invoked |-> <<>>, forwarded |-> None,
               exception |-> "store_message failed"]
         ELSE IF target_agent # None
         THEN [pc |-> "awaiting", message |-> message, target |-> target_agent,
               trace |-> <<"store", "forward">>, invoked |-> <<target_agent>>,
               forwarded |-> message]
         ELSE [pc |-> "done", message |-> message, target |-> None,
               trace |-> <<"store">>, invoked |-> <<>>, forwarded |-> None,
               response |-> MissResponse(message, agent_registry)]) @@ calls
    /\ last' = NoOp
    /\ UNCHANGED <<heap, held, fcall, dev, conv>>

\* Mutant: after the await the agent is looked up again in the registry
\* under its agent_id, and the call fails when it is no longer there.
ProcessMessageResume_Relookup(c) ==
    LET agent_id == Obj[calls[c].target].agent_id IN
    /\ c \in DOMAIN calls
    /\ calls[c].pc = "awaiting"
    /\ calls' = [calls EXCEPT ![c] =
         [pc |-> "done", message |-> @.message, target |-> @.target,
          trace |-> Append(@.trace, "annotate"), invoked |-> @.invoked,
          forwarded |-> @.forwarded,
          response |-> IF agent_id \in Keys(agent_registry)
                       THEN RoutedResponse(@.message, Lookup(agent_registry, agent_id))
                       ELSE RoutingErrorResponse(@.message, agent_id)]]
    /\ UNCHANGED <<heap, held, last, fcall, dev, conv>>

\* The target's process_message returns: the response is annotated and returned.
ProcessMessageResume(c) ==
    /\ c \in DOMAIN calls
    /\ calls[c].pc = "awaiting"
    /\ calls' = [calls EXCEPT ![c] =
         [pc |-> "done", message |-> @.message, target |-> @.target,
          trace |-> Append(@.trace, "annotate"), invoked |-> @.invoked,
          forwarded |-> @.forwarded,
          response |-> RoutedResponse(@.message, @.target)]]
    /\ UNCHANGED <<heap, held, last, fcall, dev, conv>>

\* Mutant: the except branch also removes the agent that failed from the
\* registry.
ProcessMessageCatch_Evict(c, e) ==
    /\ c \in DOMAIN calls
    /\ calls[c].pc = "awaiting"
    /\ calls' = [calls EXCEPT ![c] =
         [pc |-> "done", message |-> @.message, target |-> @.target,
          trace |-> @.trace, invoked |-> @.invoked, forwarded |-> @.forwarded,
          exception |-> e,
          response |-> RoutingErrorResponse(@.message, e)]]
    /\ heap' = [heap EXCEPT !["registry"] =
                   DictDel(agent_registry, Obj[calls[c].target].agent_id)]
    /\ UNCHANGED <<held, last, fcall, dev, conv>>

\* The target's process_message raises an Exception: the except branch
\* returns an error response carrying str(e).
ProcessMessageCatch(c, e) ==
    /\ c \in DOMAIN calls
    /\ calls[c].pc = "awaiting"
    /\ calls' = [calls EXCEPT ![c] =
         [pc |-> "done", message |-> @.message, target |-> @.target,
          trace |-> @.trace, invoked |-> @.invoked, forwarded |-> @.forwarded,
          exception |-> e,
          response |-> RoutingErrorResponse(@.message, e)]]
    /\ UNCHANGED <<heap, held, last, fcall, dev, conv>>

\* The target's process_message raises an exception that "except Exception"
\* does not match: it leaves the coroutine.
ProcessMessageEscape(c, e) ==
    /\ c \in DOMAIN calls
    /\ calls[c].pc = "awaiting"
    /\ calls' = [calls EXCEPT ![c] =
         [pc |-> "raised", message |-> @.message, target |-> @.target,
          trace |-> @.trace, invoked |-> @.invoked, forwarded |-> @.forwarded,
          exception |-> e]]
    /\ UNCHANGED <<heap, held, last, fcall, dev, conv>>

\* The caller takes the response (or the exception) of a finished call.
ProcessMessageDone(c) ==
    /\ c \in DOMAIN calls
    /\ calls[c].pc \in {"done", "raised"}
    /\ calls' = [d \in DOMAIN calls \ {c} |-> calls[d]]
    /\ UNCHANGED <<heap, held, last, fcall, dev, conv>>

RouterInstances == Instances \ {"plain"}

RouterIds == {Obj[a].agent_id : a \in RouterInstances}

RouterCalls == {"call1"}

\* One sequential caller: it builds the registry, then sends messages and
\* awaits each response before its next operation.
RouterNext ==
    \/ \E agent \in RouterInstances : calls = NoCalls /\ Register(agent)
    \/ \E agent_id \in RouterIds : calls = NoCalls /\ Unregister(agent_id)
    \/ \E c \in RouterCalls, content \in Contents, store_ok \in BOOLEAN :
         ProcessMessageStart(c, content, store_ok)
    \/ \E c \in RouterCalls : ProcessMessageResume(c)
    \/ \E c \in RouterCalls, e \in AgentExceptions : ProcessMessageCatch(c, e)
    \/ \E c \in RouterCalls, e \in BaseExceptions : ProcessMessageEscape(c, e)
    \/ \E c \in RouterCalls : ProcessMessageDone(c)

\* The agents, messages and calls of the two-message runs.
PairInstances == {"ws1", "ce1", "as1", "as2"}

PairIds == {Obj[a].agent_id : a \in PairInstances}

PairContents == {"search the web for a pdf", "run this python script", "hello there"}

PairCalls == {"call1", "call2"}

\* Messages sent to one unchanging registry: the result of an earlier call
\* is kept while a later message is routed, and the registry is altered only
\* between runs.
PairNext ==
    \/ \E agent \in PairInstances : calls = NoCalls /\ Register(agent)
    \/ \E agent_id \in PairIds : calls = NoCalls /\ Unregister(agent_id)
    \/ \E c \in PairCalls, content \in PairContents, store_ok \in BOOLEAN :
         ProcessMessageStart(c, content, store_ok)
    \/ \E c \in PairCalls : ProcessMessageResume(c)
    \/ \E c \in PairCalls, e \in AgentExceptions : ProcessMessageCatch(c, e)
    \/ \E c \in PairCalls, e \in BaseExceptions : ProcessMessageEscape(c, e)
    \/ \E c \in PairCalls : ProcessMessageDone(c)

\* The agents, messages and calls of the concurrent runs.
ConcInstances == {"yt1", "yt1_b", "as1"}

ConcIds == {Obj[a].agent_id : a \in ConcInstances}

ConcContents == {"please download https://youtube.com/watch?v=abc", "hello there"}

ConcCalls == {"call1", "call2"}

\* Several tasks of one event loop use the router: register_agent and
\* unregister_agent are synchronous and run whole between the steps of the
\* process_message coroutines, which yield only at their await.
ConcNext ==
    \/ \E agent \in ConcInstances : Register(agent)
    \/ \E agent_id \in ConcIds : Unregister(agent_id)
    \/ \E c \in ConcCalls, content \in ConcContents, store_ok \in BOOLEAN :
         ProcessMessageStart(c, content, store_ok)
    \/ \E c \in ConcCalls : ProcessMessageResume(c)
    \/ \E c \in ConcCalls, e \in AgentExceptions : ProcessMessageCatch(c, e)
    \/ \E c \in ConcCalls, e \in BaseExceptions : ProcessMessageEscape(c, e)
    \/ \E c \in ConcCalls : ProcessMessageDone(c)

(***************************************************************************)
(* WorkflowDeveloperAgent                                                  *)
(***************************************************************************)

\* The largest number of messages sent to one WorkflowDeveloperAgent.
MaxMessages == 10

IsSpace(ch) == ch \in {" ", "\n", "\t"}

RECURSIVE LowerLong(_)
\* str.lower() of a long text, taken by halves.
LowerLong(str) ==
    IF Len(str) <= 16 THEN Lower(str)
    ELSE LowerLong(SubSeq(str, 1, Len(str) \div 2))
         \o LowerLong(SubSeq(str, Len(str) \div 2 + 1, Len(str)))

RECURSIVE LStrip(_)
LStrip(str) ==
    IF Len(str) > 0 /\ IsSpace(SubSeq(str, 1, 1))
    THEN LStrip(SubSeq(str, 2, Len(str)))
    ELSE str

RECURSIVE RStrip(_)
RStrip(str) ==
    IF Len(str) > 0 /\ IsSpace(SubSeq(str, Len(str), Len(str)))
    THEN RStrip(SubSeq(str, 1, Len(str) - 1))
    ELSE str

\* str.strip()
Strip(str) == RStrip(LStrip(str))

RECURSIVE FirstWord(_)
\* The leading run of non-space characters.
FirstWord(str) ==
    IF Len(str) = 0 \/ IsSpace(SubSeq(str, 1, 1)) THEN ""
    ELSE SubSeq(str, 1, 1) \o FirstWord(SubSeq(str, 2, Len(str)))

RECURSIVE Split(_)
\* str.split(): the whitespace-separated words.
Split(str) ==
    LET rest == LStrip(str) IN
    IF Len(rest) = 0 THEN <<>>
    ELSE LET word == FirstWord(rest) IN
         <<word>> \o Split(SubSeq(rest, Len(word) + 1, Len(rest)))

IsLetter(ch) ==
    \E i \in 1..26 : SubSeq(UpperLetters, i, i) = ch \/ SubSeq(LowerLetters, i, i) = ch

RECURSIVE LettersOnly(_)
\* re.sub(r'[^a-zA-Z]', '', word)
LettersOnly(str) ==
    IF Len(str) = 0 THEN ""
    ELSE (IF IsLetter(SubSeq(str, 1, 1)) THEN SubSeq(str, 1, 1) ELSE "")
         \o LettersOnly(SubSeq(str, 2, Len(str)))

UpperChar(ch) ==
    IF \E i \in 1..26 : SubSeq(LowerLetters, i, i) = ch
    THEN LET i == CHOOSE i \in 1..26 : SubSeq(LowerLetters, i, i) = ch
         IN SubSeq(UpperLetters, i, i)
    ELSE ch

\* str.capitalize()
Capitalize(str) ==
    IF Len(str) = 0 THEN ""
    ELSE UpperChar(SubSeq(str, 1, 1)) \o Lower(SubSeq(str, 2, Len(str)))

\* The words left out of a suggested class name.
SkippedWords == {"the", "and", "for", "with", "where", "then", "that", "this", "into",
                 "one", "new", "added", "sent"}

RECURSIVE JoinKeyWords(_)
\* ''.join(key_words) for the key words drawn from a list of words.
JoinKeyWords(words) ==
    IF words = <<>> THEN ""
    ELSE LET word == Head(words)
             clean_word == LettersOnly(word) IN
         (IF Len(word) > 2 /\ word \notin SkippedWords /\ clean_word # ""
          THEN Capitalize(clean_word) ELSE "")
         \o JoinKeyWords(Tail(words))

\* Mutant: the class name built from every word of the domain.
suggested_class_AllWords(domain_input) ==
    LET words == Split(LowerLong(domain_input))
        joined == JoinKeyWords(words)
        name == IF joined # "" THEN joined \o "WorkflowSystem" ELSE "CustomWorkflowSystem" IN
    IF Len(name) > 50 THEN SubSeq(name, 1, 47) \o "System" ELSE name

\* The class name _collect_domain_info suggests for a domain.
suggested_class(domain_input) ==
    LET words == Split(LowerLong(domain_input))
        joined == JoinKeyWords(SubSeq(words, 1, IF Len(words) < 4 THEN Len(words) ELSE 4))
        name == IF joined # "" THEN joined \o "WorkflowSystem" ELSE "CustomWorkflowSystem" IN
    IF Len(name) > 50 THEN SubSeq(name, 1, 47) \o "System" ELSE name

\* requirements.domain_name: the domain cut to 150 characters.
domain_name(domain_input) ==
    IF Len(domain_input) > 150 THEN SubSeq(domain_input, 1, 147) \o "..." ELSE domain_input

\* The inputs of automated_workflow_generation_demo, in order.
demo_conversation ==
    <<"Hello, I want to create a new workflow",
      "E-commerce customer service",
      "suggested",
      "1. Welcome customer and understand their needs\n2. Collect product preferences and budget\n3. Search product database\n4. Present product options\n5. Handle questions and finalize order",
      "SQLite",
      "web search, api calls",
      "generate">>

\* The message contents sent to the agent: the demo's inputs, the inputs of
\* quick_workflow_test, the confirming keywords, and domains that exercise
\* the class-name rules.
DevInputs ==
    {demo_conversation[i] : i \in DOMAIN demo_conversation}
    \cup {"Hello", "Healthcare patient intake", " Continue ", "accept",
          "the new 2024", "international telecommunications infrastructure management"}

\* user_input = message.content.strip(), and what the handlers derive from it.
InputTable ==
    [content \in DevInputs |->
        LET user_input == Strip(content) IN
        [user_input |-> user_input,
         lower |-> LowerLong(user_input),
         domain_name |-> domain_name(Strip(user_input)),
         suggested_class |-> suggested_class(Strip(user_input)),
         web_search |-> Contains(LowerLong(user_input), "web search"),
         media |-> Contains(LowerLong(user_input), "media"),
         api |-> Contains(LowerLong(user_input), "api")]]

\* What self.assistant.chat returns to _suggest_agents_with_llm: a text whose
\* agents and steps are parsed, a text with none, or an exception.
AiOutcomes == {"parsed", "unparsed", "raises"}

\* The agent after __init__.
DevInit ==
    dev = [conversation_stage |-> "initial", domain_name |-> "", system_class_name |-> "",
           agents_needed |-> "none",
           ai_suggested_steps |-> FALSE, workflow_steps |-> FALSE,
           persistence_backend |-> "sqlite", features |-> {},
           reply |-> None, content |-> None, before |-> None, n |-> 0, followed |-> 0, generations |-> 0]

\* A message arrives: the count of messages, the stage it found, and how far
\* the messages so far follow demo_conversation.
Received(content) ==
    [dev EXCEPT !.n = @ + 1,
                !.content = content,
                !.before = dev.conversation_stage,
                !.followed = IF /\ dev.followed = dev.n
                                /\ dev.n < Len(demo_conversation)
                                /\ content = demo_conversation[dev.n + 1]
                             THEN dev.n + 1 ELSE @]

\* The guard of a branch of process_message's stage dispatch.
AtStage(stage) ==
    /\ dev.n < MaxMessages
    /\ dev.conversation_stage = stage

handle_initial_greeting(content) ==
    /\ AtStage("initial")
    /\ dev' = [Received(content) EXCEPT !.conversation_stage = "domain_info",
                                        !.reply = "greeting"]
    /\ UNCHANGED <<fcall, proxyVars, conv>>

collect_domain_info(content) ==
    /\ AtStage("domain_info")
    /\ dev' = [Received(content) EXCEPT
                  !.domain_name = InputTable[content].domain_name,
                  !.system_class_name = InputTable[content].suggested_class,
                  !.conversation_stage = "description_collection",
                  !.reply = "class_name"]
    /\ UNCHANGED <<fcall, proxyVars, conv>>

\* requirements.workflow_description, which only the generated text reads,
\* is not kept.
collect_workflow_description(content) ==
    /\ AtStage("description_collection")
    /\ dev' = [Received(content) EXCEPT
                  !.conversation_stage = "agent_suggestion",
                  !.reply = "type_continue"]
    /\ UNCHANGED <<fcall, proxyVars, conv>>

suggest_agents_with_llm(content, ai) ==
    /\ AtStage("agent_suggestion")
    /\ dev' = IF InputTable[content].lower \notin {"continue", "yes", "proceed", "go"}
              THEN [Received(content) EXCEPT !.reply = "please_continue"]
              ELSE IF ai = "raises"
              THEN [Received(content) EXCEPT !.reply = "ai_error_manual_selection"]
              ELSE [Received(content) EXCEPT
                       !.agents_needed = IF ai = "parsed" THEN "ai" ELSE @,
                       !.ai_suggested_steps = (ai = "parsed"),
                       !.conversation_stage = "agent_selection",
                       !.reply = "ai_suggestions"]
    /\ UNCHANGED <<fcall, proxyVars, conv>>

handle_agent_selection(content) ==
    /\ AtStage("agent_selection")
    /\ dev' = [Received(content) EXCEPT
                  !.agents_needed = IF InputTable[content].lower \in {"accept", "suggested"}
                                    THEN (IF @ = "none" THEN "fallback" ELSE @)
                                    ELSE "custom",
                  !.conversation_stage = "workflow_steps",
                  !.reply = "agents_listed"]
    /\ UNCHANGED <<fcall, proxyVars, conv>>

handle_workflow_steps(content) ==
    /\ AtStage("workflow_steps")
    /\ dev' = IF /\ InputTable[content].lower \in {"use suggested", "suggested",
                                                   "use ai suggestions"}
                 /\ ~dev.ai_suggested_steps
              THEN [Received(content) EXCEPT !.reply = "no_ai_suggestions"]
              ELSE [Received(content) EXCEPT
                       !.workflow_steps = TRUE,
                       !.conversation_stage = "persistence_config",
                       !.reply = "steps_analyzed"]
    /\ UNCHANGED <<fcall, proxyVars, conv>>

handle_persistence_config(content) ==
    LET user_choice == InputTable[content].lower IN
    /\ AtStage("persistence_config")
    /\ dev' = [Received(content) EXCEPT
                  !.persistence_backend =
                      IF user_choice \in {"redis", "2"} THEN "redis"
                      ELSE IF user_choice \in {"file", "3"} THEN "file"
                      ELSE IF user_choice \in {"memory", "4"} THEN "memory"
                      ELSE "sqlite",
                  !.conversation_stage = "additional_features",
                  !.reply = "persistence_chosen"]
    /\ UNCHANGED <<fcall, proxyVars, conv>>

handle_additional_features(content) ==
    /\ AtStage("additional_features")
    /\ dev' = [Received(content) EXCEPT
                  !.features = @ \cup (IF InputTable[content].web_search
                                       THEN {"web_search"} ELSE {})
                                 \cup (IF InputTable[content].media
                                       THEN {"media_processing"} ELSE {})
                                 \cup (IF InputTable[content].api
                                       THEN {"api_calls"} ELSE {}),
                  !.conversation_stage = "generate_code",
                  !.reply = "summary"]
    /\ UNCHANGED <<fcall, proxyVars, conv>>

\* Mutant: a successful generation starts the conversation over.
generate_workflow_code_Restart(content, generated_ok) ==
    /\ AtStage("generate_code")
    /\ dev' = IF InputTable[content].lower \notin {"generate", "create", "build", "make"}
              THEN [Received(content) EXCEPT !.reply = "please_generate"]
              ELSE [Received(content) EXCEPT
                       !.generations = 1,
                       !.conversation_stage = IF generated_ok THEN "initial" ELSE @,
                       !.reply = IF generated_ok THEN "generated" ELSE "generation_error"]
    /\ UNCHANGED <<fcall, proxyVars, conv>>

\* generated_ok: whether reading the template and the code executor succeed.
generate_workflow_code(content, generated_ok) ==
    /\ AtStage("generate_code")
    /\ dev' = IF InputTable[content].lower \notin {"generate", "create", "build", "make"}
              THEN [Received(content) EXCEPT !.reply = "please_generate"]
              ELSE [Received(content) EXCEPT
                       !.generations = 1,
                       !.reply = IF generated_ok THEN "generated" ELSE "generation_error"]
    /\ UNCHANGED <<fcall, proxyVars, conv>>

\* A new WorkflowDeveloperAgent is created for the next conversation.
DevNew ==
    /\ dev.n > 0
    /\ dev' = [conversation_stage |-> "initial", domain_name |-> "",
               system_class_name |-> "",
               agents_needed |-> "none", ai_suggested_steps |-> FALSE,
               workflow_steps |-> FALSE, persistence_backend |-> "sqlite",
               features |-> {}, reply |-> None, content |-> None, before |-> None, n |-> 0,
               followed |-> 0, generations |-> 0]
    /\ UNCHANGED <<fcall, proxyVars, conv>>

DevNext ==
    \/ \E content \in DevInputs : handle_initial_greeting(content)
    \/ \E content \in DevInputs : collect_domain_info(content)
    \/ \E content \in DevInputs : collect_workflow_description(content)
    \/ \E content \in DevInputs, ai \in AiOutcomes : suggest_agents_with_llm(content, ai)
    \/ \E content \in DevInputs : handle_agent_selection(content)
    \/ \E content \in DevInputs : handle_workflow_steps(content)
    \/ \E content \in DevInputs : handle_persistence_config(content)
    \/ \E content \in DevInputs : handle_additional_features(content)
    \/ \E content \in DevInputs, generated_ok \in BOOLEAN :
         generate_workflow_code(content, generated_ok)
    \/ DevNew

(***************************************************************************)
(* TwoAgentConversation.run                                                *)
(***************************************************************************)

\* The largest max_rounds a TwoAgentConversation is constructed with.
MaxRounds == 4

\* The contents of the agents' responses.
ConvReplies == {"Here is my analysis", "I would add one point",
                "Thank You, that concludes my review"}

\* _should_end_conversation: an end phrase occurs in the lower-cased content.
ShouldEnd ==
    [content \in ConvReplies |->
        \E phrase \in {"conversation complete", "thank you", "that concludes",
                       "final thoughts"} : Contains(LowerLong(content), phrase)]

\* No run in progress.
ConvIdle == [pc |-> "idle"]

ConvInit == conv = ConvIdle

\* run(initial_message) up to the for statement: messages holds the initial
\* message, agent1 is the current agent, round_num is not yet bound (the
\* empty sequence; <<k>> once bound to k).
Run(max_rounds) ==
    /\ conv = ConvIdle
    /\ conv' = [pc |-> "for", max_rounds |-> max_rounds, next |-> 0, round_num |-> <<>>,
                current_agent |-> "agent1", other_agent |-> "agent2",
                current_message |-> "initial_message",
                messages |-> <<"initial_message">>, invoked |-> <<>>]
    /\ UNCHANGED <<fcall, proxyVars, dev>>

\* range(max_rounds) yields its next value: round_num is bound and the
\* current agent's process_message is entered with current_message.
NextRound ==
    /\ conv.pc = "for"
    /\ conv.next < conv.max_rounds
    /\ conv' = [conv EXCEPT !.pc = "awaiting",
                            !.round_num = <<conv.next>>,
                            !.next = @ + 1,
                            !.invoked = Append(@, <<conv.current_agent, conv.current_message>>)]
    /\ UNCHANGED <<fcall, proxyVars, dev>>

\* The agent returns a response: it is appended, and either ends the loop
\* or becomes the other agent's input.
AgentReturns(response) ==
    /\ conv.pc = "awaiting"
    /\ conv' = IF ShouldEnd[response]
               THEN [conv EXCEPT !.pc = "after", !.messages = Append(@, response)]
               ELSE [conv EXCEPT !.pc = "for",
                                 !.messages = Append(@, response),
                                 !.current_agent = conv.other_agent,
                                 !.other_agent = conv.current_agent,
                                 !.current_message = response]
    /\ UNCHANGED <<fcall, proxyVars, dev>>

\* The agent raises an Exception: it is printed and the loop is left.
AgentRaises ==
    /\ conv.pc = "awaiting"
    /\ conv' = [conv EXCEPT !.pc = "after"]
    /\ UNCHANGED <<fcall, proxyVars, dev>>

\* The agent's call raises an exception "except Exception" does not match:
\* it leaves run.
AgentEscapes(e) ==
    /\ conv.pc = "awaiting"
    /\ conv' = [pc |-> "raised", max_rounds |-> conv.max_rounds, error |-> e,
                messages |-> conv.messages, invoked |-> conv.invoked]
    /\ UNCHANGED <<fcall, proxyVars, dev>>

\* After the loop the WorkflowResult is built with rounds = round_num + 1:
\* when the loop body never ran, round_num is unbound and the expression
\* raises UnboundLocalError.
ReturnResult ==
    /\ conv.pc = "after" \/ (conv.pc = "for" /\ conv.next >= conv.max_rounds)
    /\ conv' = IF conv.round_num = <<>>
               THEN [pc |-> "raised", max_rounds |-> conv.max_rounds,
                     error |-> "UnboundLocalError",
                     messages |-> conv.messages, invoked |-> conv.invoked]
               ELSE [pc |-> "returned", max_rounds |-> conv.max_rounds,
                     messages |-> conv.messages, invoked |-> conv.invoked,
                     rounds |-> conv.round_num[1] + 1]
    /\ UNCHANGED <<fcall, proxyVars, dev>>

\* The caller takes the result (or the exception) of the run.
ConvDone ==
    /\ conv.pc \in {"returned", "raised"}
    /\ conv' = ConvIdle
    /\ UNCHANGED <<fcall, proxyVars, dev>>

ConvNext ==
    \/ \E max_rounds \in 0..MaxRounds : Run(max_rounds)
    \/ NextRound
    \/ \E response \in ConvReplies : AgentReturns(response)
    \/ AgentRaises
    \/ \E e \in BaseExceptions : AgentEscapes(e)
    \/ ReturnResult
    \/ ConvDone

(***************************************************************************)
(* Specifications                                                          *)
(***************************************************************************)

Init == FactoryInit /\ ProxyInit /\ DevInit /\ ConvInit

SpecFactory == Init /\ [][FactoryNext]_vars

SpecRegistry == Init /\ [][RegistryNext]_vars

SpecRouter == Init /\ [][RouterNext]_vars

SpecPair == Init /\ [][PairNext]_vars

SpecConcurrent == Init /\ [][ConcNext]_vars

SpecDeveloper == Init /\ [][DevNext]_vars

SpecConversation == Init /\ [][ConvNext]_vars

(***************************************************************************)
(* Properties of the ProxyAgent registry                                   *)
(***************************************************************************)

\* The number of items a dict holds under a key.
Entries(d, key) == Cardinality({i \in DOMAIN d : d[i][1] = key})

\* C5: registering an agent whose identifier is already in the registry
\* returns True and leaves exactly one entry for that identifier, mapped to
\* the agent just registered; the registry does not grow and its other
\* entries are untouched.
C5_RegisterTwiceOverwrites ==
    (/\ last.op = "register_agent"
     /\ last.arg # None
     /\ HasAgentId(last.arg)
     /\ Obj[last.arg].agent_id \in Keys(last.before))
    => /\ last.ret = TRUE
       /\ Entries(agent_registry, Obj[last.arg].agent_id) = 1
       /\ Lookup(agent_registry, Obj[last.arg].agent_id) = last.arg
       /\ Len(agent_registry) = Len(last.before)
       /\ \A i \in DOMAIN last.before :
            last.before[i][1] # Obj[last.arg].agent_id => agent_registry[i] = last.before[i]

\* Witness C5: "yt1" was registered with one instance, next to another
\* agent, and a second instance with the same identifier was registered.
C5_Witness ==
    /\ last.op = "register_agent"
    /\ last.arg = "yt1_b"
    /\ Len(last.before) = 2
    /\ "yt1" \in Keys(last.before)
    /\ Lookup(last.before, "yt1") = "yt1"
    /\ Lookup(agent_registry, "yt1") = "yt1_b"

\* C6: unregister_agent with an identifier that is not in the registry
\* returns False and leaves the registry unchanged; with a member it returns
\* True and removes exactly that entry.
C6_Unregister ==
    last.op = "unregister_agent" =>
        IF last.arg \notin Keys(last.before)
        THEN last.ret = FALSE /\ agent_registry = last.before
        ELSE /\ last.ret = TRUE
             /\ Keys(agent_registry) = Keys(last.before) \ {last.arg}
             /\ Len(agent_registry) = Len(last.before) - 1
             /\ \A k \in Keys(agent_registry) :
                    Lookup(agent_registry, k) = Lookup(last.before, k)
             /\ \A i, j \in DOMAIN agent_registry :
                    i < j => \E m, n \in DOMAIN last.before :
                                 /\ m < n
                                 /\ last.before[m] = agent_registry[i]
                                 /\ last.before[n] = agent_registry[j]

\* Witness C6: an identifier that is not registered was unregistered from a
\* registry holding two other agents.
C6_Witness ==
    /\ last.op = "unregister_agent"
    /\ last.arg = "ws1"
    /\ Len(last.before) = 2
    /\ last.ret = FALSE

\* C7: register_agent returns False and leaves the registry unchanged
\* whenever the object passed has no agent_id (or is None).
C7_RegisterWithoutId ==
    (last.op = "register_agent" /\ (last.arg = None \/ ~HasAgentId(last.arg)))
    => last.ret = FALSE /\ agent_registry = last.before

\* Witness C7: an object without agent_id was passed while the registry
\* held an agent.
C7_Witness ==
    /\ last.op = "register_agent"
    /\ last.arg = "plain"
    /\ Len(last.before) >= 1
    /\ last.ret = FALSE

\* C8: the mapping returned by get_registered_agents is a copy: adding,
\* replacing or removing its entries changes neither the registry nor the
\* agent any message content would be routed to.
C8_DefensiveCopy ==
    last.op \in {"caller_set", "caller_del"} =>
        /\ agent_registry = last.before
        /\ \A content \in Contents :
               SelectTarget(content, agent_registry) = SelectTarget(content, last.before)

\* Witness C8: the caller changed the mapping it was given, which now
\* differs from the registry.
C8_Witness ==
    /\ last.op \in {"caller_set", "caller_del"}
    /\ held # None
    /\ Len(agent_registry) >= 1
    /\ heap[held] # agent_registry
    /\ Keys(heap[held]) # Keys(agent_registry)

(***************************************************************************)
(* Properties of routing                                                   *)
(***************************************************************************)

\* The calls whose routing decision has been taken.
Routed == {c \in DOMAIN calls : calls[c].pc \in {"awaiting", "done"}}

\* The branches whose keywords each lower-cased content matches.
MatchingTable == [content \in Contents |-> {r \in 1..6 : MatchesRule(r, Lower(content))}]

\* The branches whose keywords the content of a call matches.
MatchingRules(c) == MatchingTable[calls[c].message.content]

\* The registry positions whose item passes branch r's lookup test.
Candidates(r) ==
    {i \in DOMAIN agent_registry :
        MatchTable[r][agent_registry[i][1]][agent_registry[i][2]]}

Assistants == {i \in DOMAIN agent_registry : Obj[agent_registry[i][2]].role = "ASSISTANT"}

First(S) == CHOOSE i \in S : \A j \in S : i <= j

\* C9: when a content matches the keywords of several rules, the target is
\* decided by the highest-priority matching rule alone: it is the first
\* registered agent passing that rule's test, else the default assistant
\* (or none); a content with a media-download and a web-search keyword goes
\* to the download agent when one is registered, and never to an agent that
\* passes only the web-search test.
C9_PriorityTieBreak ==
    \A c \in Routed :
        LET M == MatchingRules(c)
            target == calls[c].target IN
        M # {} =>
            LET top == First(M) IN
            /\ IF Candidates(top) # {}
               THEN target = agent_registry[First(Candidates(top))][2]
               ELSE IF Assistants # {}
                    THEN target = agent_registry[First(Assistants)][2]
                    ELSE target = None
            /\ {1, 2} \subseteq M =>
                 /\ Candidates(1) # {} =>
                      \E i \in Candidates(1) : target = agent_registry[i][2]
                 /\ ~\E i \in Candidates(2) \ Candidates(1) : target = agent_registry[i][2]

\* Witness C9: a content with a YouTube and a web-search keyword, a
\* registry holding the web-search agent before the download agent, and the
\* response came from the download agent.
C9_Witness ==
    \E c \in Routed :
        /\ calls[c].message.content = "Search for YouTube.com clips"
        /\ Len(agent_registry) >= 2
        /\ agent_registry[1][2] = "ws1"
        /\ agent_registry[2][2] = "yt1"
        /\ calls[c].pc = "done"
        /\ calls[c].response.type = "agent_output"
        /\ calls[c].response.metadata.routed_to = "yt1"

\* The registry items whose identifier or class name indicates a download
\* specialization.
DownloadItems ==
    {item \in AllKeys \X {i \in Instances : "role" \in DOMAIN Obj[i]} :
        \/ Contains(Obj[item[2]].cls, "YouTubeDownloadAgent")
        \/ Contains(item[1], "youtube")}

IsDownloadItem(item) == item \in DownloadItems

\* C10: a content with media-download intent is routed to the (first)
\* registered agent whose identifier or class name indicates a download
\* specialization, whatever the other registered agents and their order, and
\* the response that agent returns carries routed_to equal to its identifier.
C10_DownloadRouting ==
    \A c \in Routed :
        LET downloads == {i \in DOMAIN agent_registry : IsDownloadItem(agent_registry[i])} IN
        (1 \in MatchingRules(c) /\ downloads # {})
        => /\ calls[c].target = agent_registry[First(downloads)][2]
           /\ (calls[c].pc = "done" /\ calls[c].response.type = "agent_output")
              => /\ calls[c].response.metadata.routed_to = agent_registry[First(downloads)][1]
                 /\ calls[c].response.metadata.routed_to = Obj[calls[c].target].agent_id

\* Witness C10: registry {yt1: YouTubeDownloadAgent, as1: AssistantAgent},
\* the content of the documented scenario, and routed_to = "yt1".
C10_Witness ==
    \E c \in Routed :
        /\ agent_registry = << <<"yt1", "yt1">>, <<"as1", "as1">> >>
        /\ calls[c].message.content = "please download https://youtube.com/watch?v=abc"
        /\ calls[c].pc = "done"
        /\ calls[c].response.type = "agent_output"
        /\ calls[c].response.metadata.routed_to = "yt1"

\* The calls whose store step succeeded, so that a routing decision was taken.
Decided == {c \in DOMAIN calls : calls[c].pc # "raised" \/ calls[c].invoked # <<>>}

\* No specialized agent is selected for a call: no rule matches its content,
\* or no registered agent passes the test of the first matching rule.
NoSpecialized(c) ==
    LET M == MatchingRules(c) IN
    M = {} \/ Candidates(First(M)) = {}

\* C11: when no specialized agent is selected for a message (no rule
\* matches, or the matching rule's agent is not registered) and an
\* assistant-role agent is registered, the message is forwarded to the first
\* assistant-role agent in registry order.
C11_DefaultAssistant ==
    \A c \in Decided :
        (NoSpecialized(c) /\ Assistants # {})
        => /\ calls[c].target = agent_registry[First(Assistants)][2]
           /\ calls[c].invoked = <<agent_registry[First(Assistants)][2]>>
           /\ (calls[c].pc = "done" /\ calls[c].response.type = "agent_output")
              => calls[c].response.metadata.routed_to = agent_registry[First(Assistants)][1]

\* Witness C11: a code-execution content, no code executor registered, two
\* assistants registered after a web-search agent, and the first assistant
\* answered.
C11_Witness ==
    \E c \in Decided :
        /\ calls[c].message.content = "run this python script"
        /\ agent_registry = << <<"ws1", "ws1">>, <<"as2", "as2">>, <<"as1", "as1">> >>
        /\ calls[c].pc = "done"
        /\ calls[c].response.type = "agent_output"
        /\ calls[c].response.metadata.routed_to = "as2"

\* C12: when no agent is selected and no assistant-role agent is
\* registered, process_message returns an error-typed response (it does not
\* raise, and invokes no agent) whose content lists every registered agent,
\* in registry order, by class name and identifier; with an empty registry
\* the list is empty.
C12_RoutingMiss ==
    \A c \in Decided :
        (NoSpecialized(c) /\ Assistants = {})
        => /\ calls[c].pc = "done"
           /\ calls[c].invoked = <<>>
           /\ calls[c].response.type = "error"
           /\ Len(calls[c].response.content[2]) = Len(agent_registry)
           /\ \A i \in DOMAIN agent_registry :
                  calls[c].response.content[2][i] =
                      <<Obj[agent_registry[i][2]].cls, agent_registry[i][1]>>
           /\ agent_registry = <<>> => calls[c].response.content[2] = <<>>

\* Witness C12: two specialized agents, no assistant, a content no rule
\* matches, and the error lists both agents.
C12_Witness ==
    \E c \in Decided :
        /\ calls[c].message.content = "hello there"
        /\ agent_registry = << <<"ws1", "ws1">>, <<"knowledge_1", "kb1">> >>
        /\ calls[c].pc = "done"
        /\ calls[c].response.type = "error"
        /\ calls[c].response.content[2] =
             << <<"WebSearchAgent", "ws1">>, <<"KnowledgeBaseAgent", "knowledge_1">> >>

\* The calls in which the chosen agent's process_message raised.
AgentRaised ==
    {c \in DOMAIN calls : calls[c].invoked # <<>> /\ "exception" \in DOMAIN calls[c]}

\* The call returned the error-typed response that carries the text of its
\* exception and is addressed to the sender of the inbound message.
ReturnedErrorFor(c) ==
    /\ calls[c].pc = "done"
    /\ calls[c].response.type = "error"
    /\ calls[c].response.content[2] = calls[c].exception
    /\ calls[c].response.recipient_id = calls[c].message.sender_id
    /\ calls[c].response.session_id = calls[c].message.session_id
    /\ calls[c].response.conversation_id = calls[c].message.conversation_id

\* C13 as stated: any exception raised inside the chosen agent's
\* process_message is converted into an error-typed response carrying the
\* exception text, addressed to the original sender with the inbound session
\* and conversation ids, and never reaches the caller.
C13_Original ==
    \A c \in AgentRaised : ReturnedErrorFor(c)

\* C13 amended: every exception deriving from Exception that is raised inside
\* the chosen agent's process_message is converted into that error-typed
\* response and does not reach the caller; an exception deriving only from
\* BaseException (asyncio.CancelledError) leaves process_message.
C13_DispatchFailure ==
    \A c \in AgentRaised :
        IF calls[c].exception \in BaseExceptions
        THEN calls[c].pc = "raised"
        ELSE ReturnedErrorFor(c)

\* Witness C13: the chosen agent raised "quota exceeded" and the caller got
\* the error response with that text.
C13_Witness ==
    \E c \in AgentRaised :
        /\ calls[c].exception = "quota exceeded"
        /\ calls[c].pc = "done"
        /\ calls[c].response.type = "error"
        /\ calls[c].response.content = <<"Routing error: ", "quota exceeded">>
        /\ calls[c].response.recipient_id = "user1"

\* The calls whose memory-storage step raised.
StoreRaised ==
    {c \in DOMAIN calls : calls[c].invoked = <<>> /\ "exception" \in DOMAIN calls[c]}

\* C14: an exception raised by the router's memory-storage step is caught by
\* process_message and returned as an error-typed response carrying the
\* exception's string; it never reaches the caller.
C14_StoreFailureCaught ==
    \A c \in StoreRaised :
        /\ calls[c].pc = "done"
        /\ calls[c].response.type = "error"
        /\ calls[c].response.content[2] = calls[c].exception

\* C15: for every process_message call, either exactly one registered agent
\* is invoked exactly once, or none is invoked and an error response is
\* returned; a failed dispatch is followed by no second invocation.
C15_SingleDispatch ==
    \A c \in DOMAIN calls :
        /\ Len(calls[c].invoked) <= 1
        /\ \A i \in DOMAIN calls[c].invoked :
               \E j \in DOMAIN agent_registry : agent_registry[j][2] = calls[c].invoked[i]
        /\ calls[c].invoked = <<>>
           => /\ calls[c].pc = "done"
              /\ calls[c].response.type = "error"

\* The calls that ended in a successful dispatch: the chosen agent returned
\* and its response was returned to the caller.
Dispatched ==
    {c \in DOMAIN calls : calls[c].pc = "done" /\ calls[c].response.type = "agent_output"}

\* C16: on every successful dispatch the returned response has metadata
\* routed_by equal to the router's identifier, routed_to equal to the
\* agent_id of the agent that processed the message, routed_to_class equal
\* to that agent's class name, and a routing_reason text.
C16_RoutingMetadata ==
    \A c \in Dispatched :
        LET agent == Obj[calls[c].invoked[1]]
            metadata == calls[c].response.metadata IN
        /\ Len(calls[c].invoked) = 1
        /\ metadata.routed_by = ProxyId
        /\ metadata.routed_to = agent.agent_id
        /\ metadata.routed_to_class = agent.cls
        /\ metadata.routing_reason = "Content matched " \o agent.cls \o " patterns"

\* Witness C16: the knowledge-base agent processed a message and the
\* response names it by its agent_id and class.
C16_Witness ==
    \E c \in Dispatched :
        /\ calls[c].invoked = <<"kb1">>
        /\ calls[c].response.metadata.routed_by = "proxy"
        /\ calls[c].response.metadata.routed_to = "knowledge_1"
        /\ calls[c].response.metadata.routed_to_class = "KnowledgeBaseAgent"

\* C17: for each successfully routed message the steps are store, forward,
\* annotate in that order: the store precedes the invocation, the agent is
\* given the inbound message itself, and while the agent has not returned no
\* response and no routing metadata exist.
C17_StoreForwardAnnotate ==
    \A c \in DOMAIN calls :
        /\ calls[c].invoked # <<>>
           => /\ SubSeq(calls[c].trace, 1, 2) = <<"store", "forward">>
              /\ calls[c].forwarded = calls[c].message
        /\ calls[c].pc = "awaiting"
           => /\ calls[c].trace = <<"store", "forward">>
              /\ "response" \notin DOMAIN calls[c]
        /\ c \in Dispatched
           => calls[c].trace = <<"store", "forward", "annotate">>

\* Witness C17: a message with upper-case letters was stored, forwarded as
\* it came in, and its response annotated.
C17_Witness ==
    \E c \in Dispatched :
        /\ calls[c].message.content = "Search for YouTube.com clips"
        /\ calls[c].forwarded.content = "Search for YouTube.com clips"
        /\ calls[c].trace = <<"store", "forward", "annotate">>
        /\ calls[c].response.metadata.routed_by = "proxy"

C19_RegistryStable ==
    [][/\ (calls' # calls) => (heap'["registry"] = heap["registry"])
       /\ (heap'["registry"] # heap["registry"])
          => last'.op \in {"register_agent", "unregister_agent"}]_vars

\* Witness C19: a dispatch failed and the agent that raised is still
\* registered under its agent_id.
C19_Witness ==
    \E c \in AgentRaised :
        /\ calls[c].pc = "done"
        /\ calls[c].response.type = "error"
        /\ Len(agent_registry) = 2
        /\ \E i \in DOMAIN agent_registry :
               agent_registry[i] = <<Obj[calls[c].target].agent_id, calls[c].target>>

\* A constructor invoked by the current factory call raised.
ConstructionFailed ==
    \E i \in DOMAIN fcall.result.attempted : fcall.result.attempted[i] \in fcall.failing

\* The current factory call returned an AssistantAgent that was not asked for.
Substituted ==
    /\ fcall.result.outcome = "returned"
    /\ fcall.result.cls = "AssistantAgent"
    /\ ~(fcall.op = "create_agent" /\ fcall.arg = "ASSISTANT")

NoResearcherFlag == \A i \in 1..5 : FlagOff(fcall.capabilities, ResearcherPriority[i])

Registered(agent) == \E i \in DOMAIN agent_registry : agent_registry[i][2] = agent

\* C21: with concurrent process_message, register_agent and unregister_agent
\* calls, the store, the routing decision and the start of the dispatch of a
\* message are one step: in the step in which a call appears, its store and
\* (if an agent is chosen) its forward have both happened, no other call
\* moves, the registry is not altered, and the agent it is forwarded to is
\* in the registry the decision read. A call changes later only from its
\* await.
C21_AtomicStart ==
    [][/\ \A c \in DOMAIN calls' \ DOMAIN calls :
              /\ heap'["registry"] = heap["registry"]
              /\ \A d \in DOMAIN calls : d \in DOMAIN calls' /\ calls'[d] = calls[d]
              /\ calls'[c].trace \in {<<"store">>, <<"store", "forward">>}
              /\ calls'[c].invoked # <<>>
                 => /\ calls'[c].trace = <<"store", "forward">>
                    /\ Registered(calls'[c].invoked[1])
       /\ \A c \in DOMAIN calls \cap DOMAIN calls' :
              calls'[c] # calls[c] => calls[c].pc = "awaiting"]_vars

\* Witness C21: while one dispatch is awaiting, its agent was unregistered
\* and a second message was routed to another agent.
C21_Witness ==
    /\ DOMAIN calls = {"call1", "call2"}
    /\ calls["call1"].pc = "awaiting"
    /\ calls["call2"].pc = "awaiting"
    /\ calls["call1"].target = "yt1"
    /\ calls["call2"].target = "as1"
    /\ ~Registered("yt1")
    /\ calls["call1"].message.content = calls["call2"].message.content

\* The calls whose agent returned a response.
AgentReturned ==
    {c \in DOMAIN calls : /\ calls[c].pc = "done"
                          /\ calls[c].invoked # <<>>
                          /\ "exception" \notin DOMAIN calls[c]}

\* C27: when the chosen agent is unregistered, or its identifier registered
\* again with another instance, while its dispatch is in flight, the call
\* still returns that agent's response, not an error, with routed_to and
\* routed_to_class of the instance that processed the message, whatever the
\* registry holds when the call returns.
C27_InFlightUnregister ==
    \A c \in AgentReturned :
        LET agent == Obj[calls[c].invoked[1]] IN
        /\ calls[c].response.type = "agent_output"
        /\ calls[c].response.content = <<"reply of ", calls[c].invoked[1]>>
        /\ calls[c].response.metadata.routed_to = agent.agent_id
        /\ calls[c].response.metadata.routed_to_class = agent.cls

\* Witness C27: the response of a call names "yt1" although the registry no
\* longer holds that identifier.
C27_Witness ==
    \E c \in AgentReturned :
        /\ calls[c].invoked = <<"yt1">>
        /\ "yt1" \notin Keys(agent_registry)
        /\ calls[c].response.type = "agent_output"
        /\ calls[c].response.metadata.routed_to = "yt1"
        /\ calls[c].response.metadata.routed_to_class = "YouTubeDownloadAgent"

\* C25: when the first rule whose keywords match finds no registered agent,
\* no agent of a later matching rule is chosen on account of that rule, even
\* if registered: the message goes to the first assistant-role agent, or to
\* the routing-miss error when there is none.
C25_NoLowerPriorityRule ==
    \A c \in Decided :
        LET M == MatchingRules(c) IN
        (M # {} /\ Candidates(First(M)) = {})
        => IF Assistants = {}
           THEN /\ calls[c].target = None
                /\ calls[c].pc = "done"
                /\ calls[c].response.type = "error"
           ELSE calls[c].target = agent_registry[First(Assistants)][2]

\* Witness C25: the content matches the web-search and the knowledge-base
\* rules, only a knowledge-base agent and an assistant are registered, and
\* the assistant is chosen.
C25_Witness ==
    \E c \in Decided :
        /\ calls[c].message.content = "search the web for a pdf"
        /\ MatchingRules(c) = {2, 3}
        /\ agent_registry = << <<"knowledge_1", "kb1">>, <<"as1", "as1">> >>
        /\ calls[c].target = "as1"

\* The number of "store" steps in a call's trace.
StoreCount(c) == Cardinality({i \in DOMAIN calls[c].trace : calls[c].trace[i] = "store"})

\* C26: every process_message call invokes the store of the inbound message
\* exactly once, as its first step and so before any routing decision,
\* whether the call dispatches, ends in a routing miss or in a dispatch
\* failure.
C26_StoredOnce ==
    \A c \in DOMAIN calls :
        /\ StoreCount(c) = 1
        /\ calls[c].trace[1] = "store"

\* Witness C26: a call that ended in a routing miss with agents registered
\* has stored its message once.
C26_Witness ==
    \E c \in DOMAIN calls :
        /\ calls[c].pc = "done"
        /\ calls[c].target = None
        /\ calls[c].response.type = "error"
        /\ agent_registry # <<>>
        /\ calls[c].trace = <<"store">>

\* The researcher classes of the enabled capabilities below the
\* highest-priority enabled one.
LowerPriorityEnabled(capabilities) ==
    LET on == {i \in 1..5 : ~FlagOff(capabilities, ResearcherPriority[i])} IN
    {ResearcherClass[i] : i \in {j \in on : \E k \in on : k < j}}

\* C28: create_agent for the RESEARCHER role returns the type of the
\* highest-priority enabled capability or the AssistantAgent, never the type
\* of a lower-priority enabled capability, and never invokes the constructor
\* of such a type: when constructing the highest-priority enabled type
\* raises, the AssistantAgent is constructed next.
C28_NoNextCapability ==
    (fcall.op = "create_agent" /\ fcall.arg = "RESEARCHER")
    => LET res == fcall.result
           lower == LowerPriorityEnabled(fcall.capabilities) IN
       /\ res.outcome = "returned"
          => res.cls \in {ExpectedResearcher(fcall.capabilities), "AssistantAgent"}
       /\ res.cls \notin lower
       /\ \A i \in DOMAIN res.attempted : res.attempted[i] \notin lower
       /\ (Len(res.attempted) > 1 \/ (res.attempted # <<>> /\ res.attempted[1] \in fcall.failing
                                       /\ res.attempted[1] # "AssistantAgent"))
          => res.attempted = <<ExpectedResearcher(fcall.capabilities), "AssistantAgent">>

\* Witness C28: knowledge_base and web_search are enabled, the
\* KnowledgeBaseAgent constructor raises, and the AssistantAgent is returned
\* without a WebSearchAgent being tried.
C28_Witness ==
    /\ fcall.op = "create_agent"
    /\ fcall.arg = "RESEARCHER"
    /\ Get(fcall.capabilities, "knowledge_base", FALSE)
    /\ Get(fcall.capabilities, "web_search", FALSE)
    /\ fcall.failing = {"KnowledgeBaseAgent"}
    /\ fcall.result.outcome = "returned"
    /\ fcall.result.cls = "AssistantAgent"
    /\ fcall.result.attempted = <<"KnowledgeBaseAgent", "AssistantAgent">>

\* The demo's workflow steps as a domain name: longer than 150 characters,
\* they are kept as their first 147 characters and three dots.
CutSteps == SubSeq(demo_conversation[4], 1, 147) \o "..."

\* The class name expected for each domain: the first four words, without
\* the short and the skipped ones, letters only, capitalized and joined,
\* followed by "WorkflowSystem" and cut to 47 characters and "System" when
\* longer than 50.
ExpectedClassName ==
    [domain \in {"Hello, I want to create a new workflow", "E-commerce customer service",
                 "suggested", CutSteps, "SQLite", "web search, api calls",
                 "generate", "Hello", "Healthcare patient intake", "Continue", "accept",
                 "the new 2024",
                 "international telecommunications infrastructure management"} |->
        CASE domain = "Hello, I want to create a new workflow" -> "HelloWantWorkflowSystem"
          [] domain = "E-commerce customer service" -> "EcommerceCustomerServiceWorkflowSystem"
          [] domain = "suggested" -> "SuggestedWorkflowSystem"
          [] domain = CutSteps -> "WelcomeCustomerWorkflowSystem"
          [] domain = "SQLite" -> "SqliteWorkflowSystem"
          [] domain = "web search, api calls" -> "WebSearchApiCallsWorkflowSystem"
          [] domain = "generate" -> "GenerateWorkflowSystem"
          [] domain = "Hello" -> "HelloWorkflowSystem"
          [] domain = "Healthcare patient intake" -> "HealthcarePatientIntakeWorkflowSystem"
          [] domain = "Continue" -> "ContinueWorkflowSystem"
          [] domain = "accept" -> "AcceptWorkflowSystem"
          [] domain = "the new 2024" -> "CustomWorkflowSystem"
          [] domain = "international telecommunications infrastructure management"
               -> "InternationalTelecommunicationsInfrastructureMaSystem"]

\* C22: the first message to a fresh WorkflowDeveloperAgent, whatever its
\* content, is answered with the welcome greeting and moves the stage to
\* domain_info; the second message is taken as the domain and answered with
\* the class name derived from it.
C22_GreetingThenDomain ==
    /\ dev.n = 1 => /\ dev.before = "initial"
                    /\ dev.reply = "greeting"
                    /\ dev.conversation_stage = "domain_info"
                    /\ dev.domain_name = ""
    /\ dev.n = 2 => /\ dev.before = "domain_info"
                    /\ dev.reply = "class_name"
                    /\ dev.domain_name \in DOMAIN ExpectedClassName
                    /\ dev.system_class_name = ExpectedClassName[dev.domain_name]

\* Witness C22: the second message was "Healthcare patient intake" and the
\* reply suggests HealthcarePatientIntakeWorkflowSystem.
C22_Witness ==
    /\ dev.n = 2
    /\ dev.domain_name = "Healthcare patient intake"
    /\ dev.reply = "class_name"
    /\ dev.system_class_name = "HealthcarePatientIntakeWorkflowSystem"

\* The stage the demo expects each of its inputs to be handled in.
DemoStages == <<"initial", "domain_info", "agent_selection", "workflow_steps",
                "persistence_config", "additional_features", "generate_code">>

\* C23: a fresh agent driven with the demo's seven inputs in order handles
\* the second as the domain, the third as the choice of the suggested
\* agents, the fourth as the workflow steps, the fifth as the persistence
\* choice, the sixth as the features, and the seventh, "generate", in the
\* generate_code stage, where it triggers the code generation.
C23_DemoGenerates ==
    (dev.n >= 1 /\ dev.followed = dev.n)
    => /\ dev.before = DemoStages[dev.n]
       /\ dev.n = 7 => /\ dev.generations = 1
                       /\ dev.reply \in {"generated", "generation_error"}

\* C24: once the AI-suggestion call has failed in the agent_suggestion
\* stage and the agent has announced manual agent selection, the next
\* message is handled as the list of agents: the stage is agent_selection.
C24_ManualSelectionAfterFailure ==
    dev.reply = "ai_error_manual_selection" => dev.conversation_stage = "agent_selection"

\* The chain of conversation stages.
StageChain == <<"initial", "domain_info", "description_collection", "agent_suggestion",
                "agent_selection", "workflow_steps", "persistence_config",
                "additional_features", "generate_code">>

StageIndex(stage) == CHOOSE i \in DOMAIN StageChain : StageChain[i] = stage

\* The contents that are a keyword once stripped and lower-cased.
KeywordInputs(keywords) == {content \in DevInputs : InputTable[content].lower \in keywords}

\* C29: the stage of a WorkflowDeveloperAgent is always one of the chain;
\* each message leaves it where it is or moves it to the next stage of the
\* chain, never back; agent_suggestion is left only by a message that is
\* one of continue/yes/proceed/go; in generate_code the generation runs only
\* on generate/create/build/make, and no message leaves generate_code.
C29_ForwardOnly ==
    [][dev'.n = dev.n + 1 =>
        /\ \E i \in DOMAIN StageChain : StageChain[i] = dev'.conversation_stage
        /\ dev'.before = dev.conversation_stage
        /\ StageIndex(dev'.conversation_stage) - StageIndex(dev.conversation_stage) \in {0, 1}
        /\ (dev.conversation_stage = "agent_suggestion"
            /\ dev'.conversation_stage # "agent_suggestion")
           => dev'.content \in KeywordInputs({"continue", "yes", "proceed", "go"})
        /\ dev.conversation_stage = "generate_code"
           => /\ dev'.conversation_stage = "generate_code"
              /\ (dev'.generations # dev.generations
                  \/ dev'.reply \in {"generated", "generation_error"})
                 => dev'.content \in KeywordInputs({"generate", "create", "build", "make"})]_vars

\* Witness C29: the code was generated and a further message found the
\* agent still in generate_code.
C29_Witness ==
    /\ dev.n = 10
    /\ dev.generations = 1
    /\ dev.before = "generate_code"
    /\ dev.conversation_stage = "generate_code"
    /\ dev.reply = "please_generate"

\* C30: for every max_rounds >= 0 a finished run has returned a result,
\* after at most max_rounds invocations; the invocations alternate agent1,
\* agent2, agent1, ..., each agent after the first is given the previous
\* agent's response, no invocation follows a response with an end phrase,
\* and the result counts the invocations made.
C30_RunReturns ==
    conv.pc # "idle" =>
        /\ Len(conv.invoked) <= conv.max_rounds
        /\ \A i \in DOMAIN conv.invoked :
               /\ conv.invoked[i][1] = (IF i % 2 = 1 THEN "agent1" ELSE "agent2")
               /\ conv.invoked[i][2] = conv.messages[i]
               /\ i > 1 => ~ShouldEnd[conv.messages[i]]
        /\ conv.pc \in {"returned", "raised"}
           => /\ conv.pc = "returned"
              /\ conv.rounds = Len(conv.invoked)

====
